---- MODULE Spec2Model ----
(***************************************************************************)
(* Bridge web client: the zustand platform store (frontend/src/store.ts)   *)
(* as a state machine.  The store folds the BridgeEvents that arrive on    *)
(* its WebSocket into chatHistory / agentStates / finalOutput              *)
(* (handleEvent), and offers the user actions sendQuery, clearMessages,    *)
(* setActiveSession, reset, connect and disconnect.                        *)
(*                                                                         *)
(* Modelling conventions                                                   *)
(*  - a JS string is a sequence of chunks (<<>> is ''), so that            *)
(*    concatenation is \o and "is a prefix of" is decidable;               *)
(*  - a JS object is a TLA+ record whose DOMAIN is the set of fields that  *)
(*    are present; {...a, k: v} is [k |-> v] @@ a;                         *)
(*  - string | null is an option: <<>> is null, <<s>> is the string s;     *)
(*  - generateId() returns a fresh id: the least positive number not in    *)
(*    use; the empty id '' is 0;                                           *)
(*  - Message.timestamp is not modelled (no operation reads it).           *)
(***************************************************************************)
EXTENDS Naturals, Sequences, FiniteSets, TLC

\* ------------------------------------------------------------------ bounds
\* frames delivered in one behaviour of the aggregator (Spec)
MaxEvents == 3
\* frames delivered in one behaviour of the whole store (SpecConn)
MaxConnEvents == 2
\* WebSocket objects created by connect() in one behaviour
MaxSockets == 1

\* ------------------------------------------------------- JS value helpers
None == <<>>
Some(x) == <<x>>
EmptyObj == [x \in {} |-> 0]
Has(o, f) == f \in DOMAIN o
\* the empty id '' (falsy)
NoId == 0

RECURSIVE Least(_, _)
Least(S, n) == IF n \in S THEN Least(S, n + 1) ELSE n

IsPrefix(s, t) == Len(s) <= Len(t) /\ SubSeq(t, 1, Len(s)) = s

\* ------------------------------------------------------------ event types
StatusTypes == {"status", "iteration", "pipeline_step"}
StreamTypes == {"token", "critique", "refinement"}
AgentTypes == {"agent_start", "agent_complete"} \cup StreamTypes

\* String.prototype.toLowerCase on the agent labels that occur
ToLowerCase(s) ==
  CASE s = "GEMINI" -> "gemini"
    [] s = "QWEN" -> "qwen"
    [] s = "DYNAMIC" -> "dynamic"
    [] s = "ORCHESTRATOR" -> "orchestrator"
    [] s = "SYSTEM" -> "system"
    [] OTHER -> s

\* agentId, or '' when the event carries none
AgentIdOf(e) == IF Has(e, "agentId") THEN e.agentId ELSE ""

\* agentId || agent, the fallback without toLowerCase()
EffectiveAgentIdNoLower(e) ==
  IF AgentIdOf(e) # "" THEN e.agentId ELSE e.agent

\* const effectiveAgentId = agentId || agent.toLowerCase();
EffectiveAgentId(e) ==
  IF AgentIdOf(e) # "" THEN e.agentId ELSE ToLowerCase(e.agent)

\* agent.toLowerCase() throws a TypeError when agent is undefined
Throws(e) == AgentIdOf(e) = "" /\ ~Has(e, "agent")

\* content || ''
ContentOrEmpty(e) == IF Has(e, "content") THEN e.content ELSE <<>>

\* `${effectiveAgentId}_${type}`
MessageKey(e) == EffectiveAgentId(e) \o "_" \o e.type

\* createInitialAgentState()
createInitialAgentState == [isActive |-> FALSE, isThinking |-> FALSE, tokenCount |-> 0]

\* ids in use: those of the messages and those held by currentMessageIds
UsedIds(st) ==
  {st.chatHistory[i].id : i \in 1..Len(st.chatHistory)}
    \cup {st.currentMessageIds[k] : k \in DOMAIN st.currentMessageIds}

generateId(st) == Least(UsedIds(st) \cup {NoId}, 1)

\* state.agentStates[id], or {} (the spread of undefined) when there is none
AgentStateOf(st, id) ==
  IF id \in DOMAIN st.agentStates THEN st.agentStates[id] ELSE EmptyObj

\* state.agentStates[id]?.tokenCount || 0
TokenCountOf(st, id) ==
  IF Has(AgentStateOf(st, id), "tokenCount") THEN AgentStateOf(st, id).tokenCount ELSE 0

\* ------------------------------------------------- handleEvent, case by case
\* The cases read and write the record
\*   st = [chatHistory, agentStates, currentMessageIds, finalOutput,
\*         isProcessing, currentIteration, currentStep]
\* (the store fields handleEvent touches and the closure variable
\* currentMessageIds).

\* case 'status' | 'iteration' | 'pipeline_step' with iteration || 0 and
\* step || 0 for the counters
HandleStatusResetsCounters(st, e) ==
  LET statusMessage ==
        [id |-> generateId(st), agent |-> e.agent, agentId |-> EffectiveAgentId(e),
         content |-> ContentOrEmpty(e), type |-> e.type]
  IN [st EXCEPT
        !.chatHistory = Append(st.chatHistory, statusMessage),
        !.currentIteration = IF Has(e, "iteration") THEN e.iteration ELSE 0,
        !.currentStep = IF Has(e, "step") THEN e.step ELSE 0]

\* case 'status' | 'iteration' | 'pipeline_step'
HandleStatus(st, e) ==
  LET statusMessage ==
        [id |-> generateId(st), agent |-> e.agent, agentId |-> EffectiveAgentId(e),
         content |-> ContentOrEmpty(e), type |-> e.type]
  IN [st EXCEPT
        !.chatHistory = Append(st.chatHistory, statusMessage),
        !.currentIteration = IF Has(e, "iteration") THEN e.iteration ELSE @,
        !.currentStep = IF Has(e, "step") THEN e.step ELSE @]

\* case 'agent_start' that spreads the agent's previous state instead of the
\* initial one
HandleAgentStartKeepsCount(st, e) ==
  [st EXCEPT
     !.agentStates =
        (EffectiveAgentId(e) :>
           ([isActive |-> TRUE, isThinking |-> TRUE]
              @@ AgentStateOf(st, EffectiveAgentId(e))))
        @@ st.agentStates]

\* case 'agent_start'
HandleAgentStart(st, e) ==
  [st EXCEPT
     !.agentStates =
        (EffectiveAgentId(e) :>
           ([isActive |-> TRUE, isThinking |-> TRUE] @@ createInitialAgentState))
        @@ st.agentStates]

\* case 'agent_complete'
HandleAgentComplete(st, e) ==
  [st EXCEPT
     !.currentMessageIds = (EffectiveAgentId(e) :> NoId) @@ st.currentMessageIds,
     !.agentStates =
        (EffectiveAgentId(e) :>
           ([isActive |-> FALSE, isThinking |-> FALSE]
              @@ AgentStateOf(st, EffectiveAgentId(e))))
        @@ st.agentStates]

\* currentMessageIds[messageKey], undefined and '' both read as the empty id
OpenId(st, key) ==
  IF key \in DOMAIN st.currentMessageIds THEN st.currentMessageIds[key] ELSE NoId

\* a lookup that takes the open Message to be the last Message
FindIndexLast(messages, id) ==
  IF \E i \in 1..Len(messages) : messages[i].id = id THEN Len(messages) ELSE 0

\* messages.findIndex(m => m.id === id): the first such index, 0 for -1
FindIndex(messages, id) ==
  IF \E i \in 1..Len(messages) : messages[i].id = id
    THEN CHOOSE i \in 1..Len(messages) :
           /\ messages[i].id = id
           /\ \A j \in 1..(i - 1) : messages[j].id # id
    ELSE 0

\* the chatHistory and currentMessageIds of case 'token' | 'critique' | 'refinement'
StreamMessages(st, e) ==
  LET messageKey == MessageKey(e)
      lastIdx == FindIndex(st.chatHistory, OpenId(st, messageKey))
  IN IF OpenId(st, messageKey) = NoId
       THEN [ids |-> (messageKey :> generateId(st)) @@ st.currentMessageIds,
             messages |->
               Append(st.chatHistory,
                      [id |-> generateId(st), agent |-> e.agent,
                       agentId |-> EffectiveAgentId(e), content |-> ContentOrEmpty(e),
                       isStreaming |-> TRUE, type |-> e.type])]
       ELSE [ids |-> st.currentMessageIds,
             messages |->
               IF lastIdx # 0
                 THEN [st.chatHistory EXCEPT
                         ![lastIdx] = [content |-> @.content \o ContentOrEmpty(e)] @@ @]
                 ELSE st.chatHistory]

\* case 'token' | 'critique' | 'refinement'
HandleStream(st, e) ==
  [st EXCEPT
     !.chatHistory = StreamMessages(st, e).messages,
     !.currentMessageIds = StreamMessages(st, e).ids,
     !.agentStates =
        (EffectiveAgentId(e) :>
           ([isActive |-> TRUE, isThinking |-> FALSE,
             tokenCount |-> TokenCountOf(st, EffectiveAgentId(e)) + 1]
              @@ AgentStateOf(st, EffectiveAgentId(e))))
        @@ st.agentStates]

\* payload || null
PayloadOrNull(e) ==
  IF Has(e, "payload") /\ e.payload # <<>> THEN Some(e.payload) ELSE None

\* content || (satisfied ? 'Pipeline complete' : 'Complete')
DoneContent(e) ==
  IF ContentOrEmpty(e) # <<>> THEN e.content
  ELSE IF Has(e, "satisfied") /\ e.satisfied THEN <<"Pipeline complete">>
  ELSE <<"Complete">>

\* case 'done' without the reset of currentMessageIds
HandleDoneKeepsKeys(st, e) ==
  [st EXCEPT
     !.isProcessing = FALSE,
     !.finalOutput = PayloadOrNull(e),
     !.agentStates =
        [key \in DOMAIN st.agentStates |->
           [isActive |-> FALSE, isThinking |-> FALSE] @@ st.agentStates[key]],
     !.chatHistory =
        Append(st.chatHistory,
               [id |-> generateId(st), agent |-> "SYSTEM", content |-> DoneContent(e),
                type |-> e.type])]

\* case 'done'
HandleDone(st, e) ==
  [st EXCEPT
     !.currentMessageIds = EmptyObj,
     !.isProcessing = FALSE,
     !.finalOutput = PayloadOrNull(e),
     !.agentStates =
        [key \in DOMAIN st.agentStates |->
           [isActive |-> FALSE, isThinking |-> FALSE] @@ st.agentStates[key]],
     !.chatHistory =
        Append(st.chatHistory,
               [id |-> generateId(st), agent |-> "SYSTEM", content |-> DoneContent(e),
                type |-> e.type])]

\* `Error: ${content}`
ErrorContent(e) ==
  <<"Error: ">> \o (IF Has(e, "content") THEN e.content ELSE <<"undefined">>)

\* case 'error' that replaces the transcript by the error message
HandleErrorDropsHistory(st, e) ==
  [st EXCEPT
     !.isProcessing = FALSE,
     !.chatHistory =
        <<[id |-> generateId(st), agent |-> "SYSTEM", content |-> ErrorContent(e),
           type |-> e.type]>>]

\* case 'error'
HandleError(st, e) ==
  [st EXCEPT
     !.isProcessing = FALSE,
     !.chatHistory =
        Append(st.chatHistory,
               [id |-> generateId(st), agent |-> "SYSTEM", content |-> ErrorContent(e),
                type |-> e.type])]

\* handleEvent(event): the switch on type; a type outside the vocabulary
\* matches no case.  Defined for events that do not throw.
handleEvent(st, e) ==
  CASE e.type \in StatusTypes -> HandleStatus(st, e)
    [] e.type = "agent_start" -> HandleAgentStart(st, e)
    [] e.type = "agent_complete" -> HandleAgentComplete(st, e)
    [] e.type \in StreamTypes -> HandleStream(st, e)
    [] e.type = "done" -> HandleDone(st, e)
    [] e.type = "error" -> HandleError(st, e)
    [] OTHER -> st

\* ------------------------------------------------------ inputs (bounded sets)
EvG == [agent |-> "GEMINI"]
EvD == [agent |-> "DYNAMIC", agentId |-> "gemini"]
EvQ == [agent |-> "QWEN", agentId |-> "qwen"]

\* the BridgeEvents the server may send (types.ts BridgeEvent): every type of
\* the vocabulary, agent-only and agentId-carrying forms, present, absent and
\* empty optional fields
Events ==
  {[agent |-> "ORCHESTRATOR", type |-> "status", content |-> <<"s">>],
   [agent |-> "ORCHESTRATOR", type |-> "iteration", iteration |-> 1],
   [agent |-> "ORCHESTRATOR", type |-> "pipeline_step", content |-> <<"p">>,
    step |-> 1, agentId |-> "gemini"]}
  \cup {[type |-> "agent_start"] @@ EvG,
        [type |-> "agent_complete"] @@ EvG,
        [type |-> "agent_complete"] @@ EvQ,
        [type |-> "token", content |-> <<"a">>] @@ EvG,
        [type |-> "token"] @@ EvG,
        [type |-> "token", content |-> <<"d">>] @@ EvD,
        [type |-> "token", content |-> <<"q">>] @@ EvQ,
        [type |-> "token", content |-> <<"e">>, agent |-> "QWEN", agentId |-> ""],
        [type |-> "critique", content |-> <<"c">>] @@ EvG,
        [type |-> "refinement", content |-> <<"r">>] @@ EvG}
  \cup {[agent |-> "SYSTEM", type |-> "done", payload |-> <<"out">>, satisfied |-> TRUE],
        [agent |-> "SYSTEM", type |-> "done", payload |-> <<>>, content |-> <<"fin">>,
         satisfied |-> FALSE],
        [agent |-> "SYSTEM", type |-> "done"]}
  \cup {[agent |-> "SYSTEM", type |-> "error", content |-> <<"boom">>],
        [agent |-> "SYSTEM", type |-> "error"]}

\* frames on the wire: the JSON text of an event, text that is not JSON, and
\* a JSON object that names neither agent nor agentId
Malformed ==
  {[parses |-> FALSE],
   [parses |-> TRUE, data |-> [type |-> "token", content |-> <<"a">>]]}

Frames == {[parses |-> TRUE, data |-> e] : e \in Events} \cup Malformed

Queries == {"q"}
Sessions == {"s1"}
\* the agent lists GET /agents/discovered may answer with
DiscoveredSets == {{}, {"gemini", "qwen"}}

\* the (agentId, type) pairs the events address
WindowKeys == {"gemini", "qwen"} \X StreamTypes

VARIABLES
  \* store state (PlatformState) that the modelled operations use
  chatHistory, agentStates, finalOutput, isProcessing, currentIteration, currentStep,
  isConnected, activeSessionId,
  \* closure variables of the store
  currentMessageIds, ws,
  \* the WebSocket objects created so far: sockets[i] = [readyState, url]; ws is
  \* the index of the current one, 0 for null
  sockets,
  \* the current connection: the run whose frames are arriving on it: "none"
  \* (no query was sent on it), "current" (the run of the last sendQuery) or
  \* "earlier" (a run that an earlier sendQuery started: its frames are still
  \* in flight, or the server has not read the last query yet)
  arriving,
  \* the pipeline builder and the session list (PlatformState)
  activePipeline, sessions,
  \* the number of ids generateId() has made for pipeline steps: the step ids
  \* are 1, 2, ... in the order they were made
  generated,
  \* the body of the POST /session/new request createSession is awaiting
  \* (None when there is none)
  posted,
  \* the last message passed to ws.send, with the socket it was passed to
  \* (None before the first)
  sent,
  \* the Orchestration Engine of the session the store is connected to: its
  \* current run with the events it has emitted, and the number of terminal
  \* events the run it cancelled last had emitted (None when it cancelled
  \* none); epoch tells a run from the one before it
  engine,
  \* number of frames delivered in the behaviour, and the last of them
  handled, last,
  \* history variables: the store state a second delivery of the current
  \* run's events to a fresh store yields (None when the transcript was
  \* changed by something else than the run's events); per (agentId, type)
  \* the accumulation window as the event sequence defines it; the ids of
  \* the messages written by frames of an earlier run than the current one
  \* (and the empty id when such a frame changed agentStates, finalOutput
  \* or isProcessing)
  replay, window, stale

vars ==
  <<chatHistory, agentStates, finalOutput, isProcessing, currentIteration, currentStep,
    isConnected, activeSessionId, currentMessageIds, ws, sockets, arriving,
    activePipeline, sessions, generated, posted, sent, engine, handled, last, replay,
    window, stale>>

netVars == <<arriving>>
sockVars == <<ws, sockets>>
aggVars ==
  <<chatHistory, agentStates, finalOutput, isProcessing, currentIteration, currentStep,
    currentMessageIds>>
histVars == <<replay, window, stale>>
capVars == <<handled, last>>
pipeVars == <<activePipeline, sessions, generated, posted>>
editVars == <<activePipeline, sessions, generated, posted, sent, engine>>

\* the Engine before the first query: no run
IdleEngine ==
  [phase |-> "IDLE", steps |-> <<>>, maxIterations |-> 0, step |-> 0, iteration |-> 0,
   chunks |-> 0, satisfied |-> TRUE, signalled |-> FALSE, events |-> <<>>,
   cancelled |-> None, epoch |-> 0, fromStore |-> FALSE, tookSent |-> FALSE]

\* the aggregator's part of the state, as handleEvent reads it
Cur ==
  [chatHistory |-> chatHistory, agentStates |-> agentStates,
   currentMessageIds |-> currentMessageIds, finalOutput |-> finalOutput,
   isProcessing |-> isProcessing, currentIteration |-> currentIteration,
   currentStep |-> currentStep]

Store(st) ==
  /\ chatHistory' = st.chatHistory
  /\ agentStates' = st.agentStates
  /\ currentMessageIds' = st.currentMessageIds
  /\ finalOutput' = st.finalOutput
  /\ isProcessing' = st.isProcessing
  /\ currentIteration' = st.currentIteration
  /\ currentStep' = st.currentStep

\* a store right after sendQuery that has never seen an event
FreshRun ==
  [chatHistory |-> <<>>, agentStates |-> EmptyObj, currentMessageIds |-> EmptyObj,
   finalOutput |-> None, isProcessing |-> TRUE, currentIteration |-> 0, currentStep |-> 0]

\* a window: open (an event of the pair was handled since the last boundary),
\* the boundaries handled since its last event, the content of its events,
\* and the length chatHistory had when it opened
ClosedWindow(by) == [open |-> FALSE, closers |-> by, text |-> <<>>, since |-> 0]

\* the windows after event e: token | critique | refinement opens or extends
\* its own; agent_complete closes the agent's; iteration and done close all
WindowAfter(w, e, len) ==
  [k \in WindowKeys |->
     CASE e.type \in StreamTypes /\ k = <<EffectiveAgentId(e), e.type>> ->
            [open |-> TRUE, closers |-> {}, text |-> w[k].text \o ContentOrEmpty(e),
             since |-> IF w[k].open THEN w[k].since ELSE len]
       [] e.type = "agent_complete" /\ k[1] = EffectiveAgentId(e) ->
            ClosedWindow(w[k].closers \cup {"agent_complete"})
       [] e.type \in {"iteration", "done"} -> ClosedWindow(w[k].closers \cup {e.type})
       [] OTHER -> w[k]]

\* the ids of the messages of `new` that `old` does not hold as they are
Written(old, new) ==
  {new[i].id : i \in {j \in 1..Len(new) : j > Len(old) \/ new[j] # old[j]}}

OpenSocket == ws # 0 /\ sockets[ws].readyState = "OPEN"

\* new WebSocket(wsUrl)
WsUrl(sessionId) == IF sessionId # "" THEN "/ws/chat/" \o sessionId ELSE "/ws/bridge"

\* the store after construction
Init ==
  /\ chatHistory = <<>>
  /\ agentStates = EmptyObj
  /\ finalOutput = None
  /\ isProcessing = FALSE
  /\ currentIteration = 0
  /\ currentStep = 0
  /\ isConnected = FALSE
  /\ activeSessionId = None
  /\ currentMessageIds = EmptyObj
  /\ ws = 0
  /\ sockets = <<>>
  /\ arriving = "none"
  /\ activePipeline = <<>>
  /\ generated = 0
  /\ sessions = <<>>
  /\ posted = None
  /\ sent = None
  /\ engine = IdleEngine
  /\ handled = 0
  /\ last = None
  /\ replay = None
  /\ window = [k \in WindowKeys |-> ClosedWindow({})]
  /\ stale = {}

\* ------------------------------------------------------------- the socket
\* the connection of the current socket is gone: nothing sent on it arrives
DropConnection == arriving' = "none"

\* a connect(sessionId?) that also empties the transcript
ConnectClears(sessionId) ==
  /\ ~OpenSocket
  /\ sockets' = Append(sockets, [readyState |-> "CONNECTING", url |-> WsUrl(sessionId)])
  /\ ws' = Len(sockets) + 1
  /\ DropConnection
  /\ chatHistory' = <<>>
  /\ finalOutput' = None
  /\ currentMessageIds' = EmptyObj
  /\ UNCHANGED <<agentStates, isProcessing, currentIteration, currentStep, isConnected,
                 activeSessionId, capVars, histVars, editVars>>

\* connect(sessionId?)
Connect(sessionId) ==
  /\ ~OpenSocket
  /\ sockets' = Append(sockets, [readyState |-> "CONNECTING", url |-> WsUrl(sessionId)])
  /\ ws' = Len(sockets) + 1
  /\ DropConnection
  /\ UNCHANGED <<aggVars, isConnected, activeSessionId, capVars, histVars, editVars>>

\* ws.onopen of socket i
OnOpen(i) ==
  /\ sockets[i].readyState = "CONNECTING"
  /\ sockets' = [sockets EXCEPT ![i].readyState = "OPEN"]
  /\ isConnected' = TRUE
  /\ UNCHANGED <<aggVars, activeSessionId, ws, netVars, capVars, histVars, editVars>>

\* an onclose that also empties the transcript
OnCloseClears(i) ==
  /\ sockets[i].readyState \in {"OPEN", "CLOSING", "FAILED"}
  /\ sockets' = [sockets EXCEPT ![i].readyState = "CLOSED"]
  /\ isConnected' = FALSE
  /\ isProcessing' = FALSE
  /\ chatHistory' = <<>>
  /\ IF i = ws THEN DropConnection ELSE UNCHANGED netVars
  /\ UNCHANGED <<agentStates, finalOutput, currentIteration, currentStep,
                 currentMessageIds, activeSessionId, ws, capVars, histVars, editVars>>

\* ws.onclose of socket i: the close event of a socket that was closed by
\* either side or has failed
OnClose(i) ==
  /\ sockets[i].readyState \in {"OPEN", "CLOSING", "FAILED"}
  /\ sockets' = [sockets EXCEPT ![i].readyState = "CLOSED"]
  /\ isConnected' = FALSE
  /\ isProcessing' = FALSE
  /\ IF i = ws THEN DropConnection ELSE UNCHANGED netVars
  /\ UNCHANGED <<chatHistory, agentStates, finalOutput, currentIteration, currentStep,
                 currentMessageIds, activeSessionId, ws, capVars, histVars, editVars>>

\* ws.onerror of socket i: the connection has failed (readyState is CLOSED
\* and the close event is still to come)
OnError(i) ==
  /\ sockets[i].readyState \in {"CONNECTING", "OPEN", "CLOSING"}
  /\ sockets' = [sockets EXCEPT ![i].readyState = "FAILED"]
  /\ isConnected' = FALSE
  /\ IF i = ws THEN DropConnection ELSE UNCHANGED netVars
  /\ UNCHANGED <<aggVars, activeSessionId, ws, capVars, histVars, editVars>>

\* ws?.close(); ws = null
CloseCurrent ==
  /\ sockets' =
       IF ws # 0 /\ sockets[ws].readyState \in {"CONNECTING", "OPEN"}
         THEN [sockets EXCEPT ![ws].readyState = "CLOSING"]
         ELSE sockets
  /\ ws' = 0
  /\ DropConnection

\* disconnect()
Disconnect ==
  /\ CloseCurrent
  /\ isConnected' = FALSE
  /\ UNCHANGED <<aggVars, activeSessionId, capVars, histVars, editVars>>

\* ------------------------------------------------------- the user actions
\* defaultSettings (the settings panel is not modelled)
defaultSettings == [maxIterations |-> 1, skipCritique |-> FALSE, contextWindow |-> 5]

\* s => ({agentId: s.agentId, role: s.role, model: s.model, settings:
\* s.settings}) as JSON.stringify writes it: an undefined field is left out
StepPayload(s) ==
  [f \in DOMAIN s \cap {"agentId", "role", "model", "settings"} |-> s[f]]

\* a payload that carries the pipeline also when it has no steps
QueryPayloadAlwaysPipeline(query) ==
  [pipeline |->
     [steps |-> [i \in 1..Len(activePipeline) |-> StepPayload(activePipeline[i])],
      maxIterations |-> defaultSettings.maxIterations,
      contextWindow |-> defaultSettings.contextWindow]]
    @@ [query |-> query, maxIterations |-> defaultSettings.maxIterations,
        skipCritique |-> defaultSettings.skipCritique]

\* the object sendQuery stringifies
QueryPayload(query) ==
  LET payload ==
        [query |-> query, maxIterations |-> defaultSettings.maxIterations,
         skipCritique |-> defaultSettings.skipCritique]
  IN IF Len(activePipeline) > 0
       THEN [pipeline |->
               [steps |-> [i \in 1..Len(activePipeline) |-> StepPayload(activePipeline[i])],
                maxIterations |-> defaultSettings.maxIterations,
                contextWindow |-> defaultSettings.contextWindow]] @@ payload
       ELSE payload

\* sendQuery(query) without the readyState check
SendQueryUnguarded(query) ==
  /\ chatHistory' = <<>>
  /\ finalOutput' = None
  /\ isProcessing' = TRUE
  /\ currentIteration' = 0
  /\ currentStep' = 0
  /\ currentMessageIds' = EmptyObj
  /\ arriving' = IF arriving = "none" THEN "current" ELSE "earlier"
  /\ replay' = Some([FreshRun EXCEPT !.currentMessageIds = EmptyObj])
  /\ window' = [k \in WindowKeys |-> ClosedWindow({"sendQuery"})]
  /\ stale' = {}
  /\ sent' = Some([socket |-> ws, data |-> QueryPayload(query)])
  /\ UNCHANGED <<agentStates, isConnected, activeSessionId, sockVars, capVars, pipeVars,
                 engine>>

\* a sendQuery(query) that leaves the accumulation keys and the iteration
\* counters as they are
SendQueryKeepsKeys(query) ==
  /\ OpenSocket
  /\ chatHistory' = <<>>
  /\ finalOutput' = None
  /\ isProcessing' = TRUE
  /\ arriving' = IF arriving = "none" THEN "current" ELSE "earlier"
  /\ replay' = Some([FreshRun EXCEPT !.currentMessageIds = EmptyObj])
  /\ window' = [k \in WindowKeys |-> ClosedWindow({"sendQuery"})]
  /\ stale' = {}
  /\ sent' = Some([socket |-> ws, data |-> QueryPayload(query)])
  /\ UNCHANGED <<agentStates, isConnected, activeSessionId, sockVars, capVars, pipeVars,
                 engine, currentIteration, currentStep, currentMessageIds>>

\* sendQuery(query) on an OPEN socket (on any other it returns at once)
SendQuery(query) ==
  /\ OpenSocket
  /\ chatHistory' = <<>>
  /\ finalOutput' = None
  /\ isProcessing' = TRUE
  /\ currentIteration' = 0
  /\ currentStep' = 0
  /\ currentMessageIds' = EmptyObj
  /\ arriving' = IF arriving = "none" THEN "current" ELSE "earlier"
  /\ replay' = Some([FreshRun EXCEPT !.currentMessageIds = EmptyObj])
  /\ window' = [k \in WindowKeys |-> ClosedWindow({"sendQuery"})]
  /\ stale' = {}
  /\ sent' = Some([socket |-> ws, data |-> QueryPayload(query)])
  /\ UNCHANGED <<agentStates, isConnected, activeSessionId, sockVars, capVars, pipeVars,
                 engine>>

\* clearMessages()
ClearMessages ==
  /\ chatHistory' = <<>>
  /\ finalOutput' = None
  /\ currentIteration' = 0
  /\ currentStep' = 0
  /\ replay' = None
  /\ window' = [k \in WindowKeys |-> ClosedWindow({"cleared"})]
  /\ stale' = {}
  /\ UNCHANGED <<agentStates, isProcessing, currentMessageIds, isConnected,
                 activeSessionId, sockVars, netVars, capVars, editVars>>

\* setActiveSession(sessionId)
SetActiveSession(sessionId) ==
  /\ activeSessionId' = Some(sessionId)
  /\ chatHistory' = <<>>
  /\ replay' = None
  /\ window' = [k \in WindowKeys |-> ClosedWindow({"cleared"})]
  /\ stale' = {}
  /\ UNCHANGED <<agentStates, finalOutput, isProcessing, currentIteration, currentStep,
                 currentMessageIds, isConnected, sockVars, netVars, capVars, editVars>>

\* reset()
Reset ==
  /\ CloseCurrent
  /\ isConnected' = FALSE
  /\ isProcessing' = FALSE
  /\ chatHistory' = <<>>
  /\ finalOutput' = None
  /\ currentIteration' = 0
  /\ currentStep' = 0
  /\ replay' = None
  /\ window' = [k \in WindowKeys |-> ClosedWindow({"cleared"})]
  /\ stale' = {}
  /\ UNCHANGED <<agentStates, currentMessageIds, activeSessionId, capVars, editVars>>

\* fetchAgents(), when the response arrives: one initial AgentState per
\* discovered agent replaces agentStates
FetchAgents(ids) ==
  /\ agentStates' = [id \in ids |-> createInitialAgentState]
  /\ replay' = None
  /\ UNCHANGED <<chatHistory, finalOutput, isProcessing, currentIteration, currentStep,
                 currentMessageIds, isConnected, activeSessionId, sockVars, netVars,
                 capVars, window, stale, editVars>>

\* ------------------------------------------------------- the pipeline builder
\* the other variables of the store and of the model, which the pipeline
\* actions leave alone
notPipelineVars ==
  <<aggVars, isConnected, activeSessionId, sockVars, netVars, capVars, histVars,
    sessions, posted, sent, engine>>

\* addPipelineStep(agentId, role): a step with a new id and empty settings
\* is appended
AddPipelineStep(agentId, role) ==
  /\ generated' = generated + 1
  /\ activePipeline' =
       Append(activePipeline,
              [id |-> generated + 1, agentId |-> agentId, role |-> role,
               settings |-> EmptyObj])
  /\ UNCHANGED notPipelineVars

\* removePipelineStep(stepId): filter(s => s.id !== stepId)
RemovePipelineStep(stepId) ==
  /\ activePipeline' = SelectSeq(activePipeline, LAMBDA s : s.id # stepId)
  /\ UNCHANGED <<notPipelineVars, generated>>

\* updatePipelineStep(stepId, updates): {...s, ...updates} for the steps
\* with that id
UpdatePipelineStep(stepId, updates) ==
  /\ activePipeline' =
       [i \in 1..Len(activePipeline) |->
          IF activePipeline[i].id = stepId
            THEN updates @@ activePipeline[i]
            ELSE activePipeline[i]]
  /\ UNCHANGED <<notPipelineVars, generated>>

\* the index Array.prototype.splice starts at, for the argument i and an
\* array of length n (0-based)
SpliceStart(i, n) ==
  IF i < 0 THEN (IF n + i < 0 THEN 0 ELSE n + i)
  ELSE IF i > n THEN n ELSE i

\* the value of a missing array element
undefined == [undefined |-> TRUE]

\* pipeline.splice(fromIndex, 1): the removed elements and what is left
SpliceOut(p, fromIndex) ==
  LET s == SpliceStart(fromIndex, Len(p))
  IN IF s < Len(p)
       THEN [removed |-> <<p[s + 1]>>,
             rest |-> SubSeq(p, 1, s) \o SubSeq(p, s + 2, Len(p))]
       ELSE [removed |-> <<>>, rest |-> p]

\* pipeline.splice(toIndex, 0, x)
SpliceIn(p, toIndex, x) ==
  LET t == SpliceStart(toIndex, Len(p))
  IN SubSeq(p, 1, t) \o <<x>> \o SubSeq(p, t + 1, Len(p))

\* a reorderPipeline that exchanges the two steps
ReorderPipelineSwaps(fromIndex, toIndex) ==
  /\ activePipeline' =
       [i \in 1..Len(activePipeline) |->
          IF i = fromIndex + 1 /\ toIndex + 1 \in 1..Len(activePipeline)
            THEN activePipeline[toIndex + 1]
          ELSE IF i = toIndex + 1 /\ fromIndex + 1 \in 1..Len(activePipeline)
            THEN activePipeline[fromIndex + 1]
          ELSE activePipeline[i]]
  /\ UNCHANGED <<notPipelineVars, generated>>

\* reorderPipeline(fromIndex, toIndex): const [removed] =
\* pipeline.splice(fromIndex, 1); pipeline.splice(toIndex, 0, removed)
ReorderPipeline(fromIndex, toIndex) ==
  /\ LET out == SpliceOut(activePipeline, fromIndex)
         removed == IF out.removed = <<>> THEN undefined ELSE out.removed[1]
     IN activePipeline' = SpliceIn(out.rest, toIndex, removed)
  /\ UNCHANGED <<notPipelineVars, generated>>

\* clearPipeline()
ClearPipeline ==
  /\ activePipeline' = <<>>
  /\ UNCHANGED <<notPipelineVars, generated>>

\* ------------------------------------------------------------ the sessions
\* the ids the server gives the sessions it creates
SessionIds == {"s1", "s2"}

\* createSession(), up to its await: the pipeline is read and posted
CreateSession ==
  /\ posted' =
       Some([pipeline |->
               [i \in 1..Len(activePipeline) |-> StepPayload(activePipeline[i])]])
  /\ UNCHANGED <<aggVars, isConnected, activeSessionId, sockVars, netVars, capVars,
                 histVars, activePipeline, sessions, generated, sent,
                 engine>>

\* the Session the server answers the posted request with: a new id and the
\* pipeline it was sent
CreatedSession(id) == [id |-> id, pipeline |-> posted[1].pipeline]

\* a connect(sessionId) made by a handler that has just set the store: the
\* socket part of Connect
ThenConnect(sessionId) ==
  IF OpenSocket
    THEN UNCHANGED <<sockVars, netVars>>
    ELSE /\ sockets' =
              Append(sockets, [readyState |-> "CONNECTING", url |-> WsUrl(sessionId)])
         /\ ws' = Len(sockets) + 1
         /\ DropConnection

\* a handleCreateSession that stores the builder's steps as they are when
\* the response arrives
HandleCreateSessionReadsBuilder(id) ==
  /\ posted # None
  /\ sessions' =
       <<[id |-> id,
          pipeline |-> [i \in 1..Len(activePipeline) |-> StepPayload(activePipeline[i])]]>>
         \o sessions
  /\ activeSessionId' = Some(id)
  /\ posted' = None
  /\ ThenConnect(id)
  /\ UNCHANGED <<aggVars, isConnected, capVars, histVars, activePipeline, generated,
                 sent, engine>>

\* Sidebar.handleCreateSession when the response arrives: createSession()
\* prepends the session and makes it active, then connect(session.id)
HandleCreateSession(id) ==
  /\ posted # None
  /\ sessions' = <<CreatedSession(id)>> \o sessions
  /\ activeSessionId' = Some(id)
  /\ posted' = None
  /\ ThenConnect(id)
  /\ UNCHANGED <<aggVars, isConnected, capVars, histVars, activePipeline, generated,
                 sent, engine>>

\* Sidebar.handleSelectSession(sessionId): setActiveSession(sessionId), then
\* connect(sessionId)
HandleSelectSession(sessionId) ==
  /\ activeSessionId' = Some(sessionId)
  /\ chatHistory' = <<>>
  /\ replay' = None
  /\ window' = [k \in WindowKeys |-> ClosedWindow({"cleared"})]
  /\ stale' = {}
  /\ ThenConnect(sessionId)
  /\ UNCHANGED <<agentStates, finalOutput, isProcessing, currentIteration, currentStep,
                 currentMessageIds, isConnected, capVars, editVars>>

\* ------------------------------------------------------------- the server
\* the server has read the last query and cancelled the runs before it, and
\* the last frame those runs emitted has been delivered: the frames that
\* arrive from now on are the current run's
CurrentRunArrives ==
  /\ OpenSocket
  /\ arriving = "earlier"
  /\ arriving' = "current"
  /\ UNCHANGED <<aggVars, isConnected, activeSessionId, sockVars, capVars, histVars, editVars>>

\* ------------------------------------------------------------- the engine
\* The Orchestration Engine: run(query, pipeline) as a state machine, one
\* event emitted per step.
\* output chunks an agent streams in one invocation
MaxChunks == 1
\* the largest maxIterations a query asks for
MaxCap == 2

notEngineVars ==
  <<aggVars, isConnected, activeSessionId, sockVars, netVars, capVars, histVars,
    pipeVars, sent>>

\* the roles whose output carries a verdict
VerdictRoles == {"critic", "analyzer"}

\* "Absence of `pipeline` selects a default two-step generator/critic
\* pipeline"
DefaultSteps == <<"generator", "critic">>

\* the PipelineDefinition a submit-query message selects: the roles of its
\* steps, and its maxIterations
StepsOf(msg) ==
  IF Has(msg, "pipeline")
    THEN [i \in 1..Len(msg.pipeline.steps) |-> msg.pipeline.steps[i].role]
    ELSE DefaultSteps
CapOf(msg) ==
  IF Has(msg, "pipeline") THEN msg.pipeline.maxIterations ELSE msg.maxIterations

\* the event type a role's output is streamed as
ChunkType(role) ==
  CASE role = "critic" -> "critique"
    [] role = "refiner" -> "refinement"
    [] OTHER -> "token"

\* the re-entry point of the refinement loop: the first non-analyzer step
\* (0-based)
ReentryStep(steps) ==
  IF \E i \in 1..Len(steps) : steps[i] # "analyzer"
    THEN (CHOOSE i \in 1..Len(steps) :
            /\ steps[i] # "analyzer"
            /\ \A j \in 1..(i - 1) : steps[j] = "analyzer") - 1
    ELSE 0

\* the number of terminal events in a stream
Terminals(events) ==
  Cardinality({i \in 1..Len(events) : events[i].type \in {"done", "error"}})

\* a run is in progress
EngineRunning == engine.phase \in {"INIT", "RUNNING_STEP", "STREAMING", "COMPLETED"}

\* the engine emits ev
Emit(ev) == Append(engine.events, ev)

\* the role of the step the run is at
RoleAtStep == engine.steps[engine.step + 1]

\* a submit-query message arrives: the run in progress is cancelled (its
\* terminal event is suppressed) and state resets before the new run's INIT
EngineReceives(msg, fromStore) ==
  /\ engine' =
       [phase |-> "INIT", steps |-> StepsOf(msg), maxIterations |-> CapOf(msg),
        step |-> 0, iteration |-> 1, chunks |-> 0, satisfied |-> TRUE,
        signalled |-> FALSE, events |-> <<>>,
        cancelled |->
          IF EngineRunning
            THEN Some([terminals |-> Terminals(engine.events)])
            ELSE engine.cancelled,
        epoch |-> 1 - engine.epoch, fromStore |-> fromStore,
        tookSent |-> engine.tookSent \/ fromStore]
  /\ UNCHANGED notEngineVars

\* the message the store sent arrives
ReceiveSent ==
  /\ sent # None
  /\ ~engine.tookSent
  /\ EngineReceives(sent[1].data, TRUE)

\* INIT: a pipeline with zero steps is an error, reported immediately;
\* otherwise a status event, then RUNNING_STEP(0)
EngineInit ==
  /\ engine.phase = "INIT"
  /\ engine' =
       IF Len(engine.steps) = 0
         THEN [engine EXCEPT !.phase = "ERROR", !.events = Emit([type |-> "error"])]
         ELSE [engine EXCEPT !.phase = "RUNNING_STEP", !.events = Emit([type |-> "status"])]
  /\ UNCHANGED notEngineVars

\* RUNNING_STEP(i): the agent of step i is invoked: agent_start
AgentStart ==
  /\ engine.phase = "RUNNING_STEP"
  /\ engine' =
       [engine EXCEPT !.phase = "STREAMING", !.chunks = 0,
                      !.events = Emit([type |-> "agent_start", step |-> engine.step])]
  /\ UNCHANGED notEngineVars

\* the agent produces a chunk of output
AgentChunk ==
  /\ engine.phase = "STREAMING"
  /\ engine.chunks < MaxChunks
  /\ engine' =
       [engine EXCEPT !.chunks = @ + 1,
                      !.events = Emit([type |-> ChunkType(RoleAtStep), step |-> engine.step])]
  /\ UNCHANGED notEngineVars

\* an invocation that fails and a run that goes on: the error is emitted
\* and the agent is taken to have completed
AgentFailsRunGoesOn ==
  /\ engine.phase = "STREAMING"
  /\ engine' = [engine EXCEPT !.phase = "COMPLETED", !.events = Emit([type |-> "error"])]
  /\ UNCHANGED notEngineVars

\* the agent invocation fails: an error event for the run, which ends
AgentFails ==
  /\ engine.phase = "STREAMING"
  /\ engine' = [engine EXCEPT !.phase = "ERROR", !.events = Emit([type |-> "error"])]
  /\ UNCHANGED notEngineVars

\* the agent finishes: agent_complete; the output of a critic or analyzer
\* signals satisfaction or not (an output that is no verdict counts as not
\* satisfied)
AgentCompletes(verdict) ==
  /\ engine.phase = "STREAMING"
  /\ RoleAtStep \notin VerdictRoles => verdict
  /\ engine' =
       [engine EXCEPT
          !.phase = "COMPLETED",
          !.satisfied = IF RoleAtStep \in VerdictRoles THEN verdict ELSE @,
          !.signalled = @ \/ (RoleAtStep \in VerdictRoles /\ verdict),
          !.events = Emit([type |-> "agent_complete", step |-> engine.step])]
  /\ UNCHANGED notEngineVars

\* an engine that loops while the iteration count is at most maxIterations
EngineAdvancesPastCap ==
  /\ engine.phase = "COMPLETED"
  /\ engine' =
       IF /\ RoleAtStep \in VerdictRoles
          /\ ~engine.satisfied
          /\ engine.iteration <= engine.maxIterations
         THEN [engine EXCEPT
                 !.phase = "RUNNING_STEP", !.iteration = @ + 1,
                 !.step = ReentryStep(engine.steps),
                 !.events = Emit([type |-> "iteration", iteration |-> engine.iteration + 1])]
       ELSE IF engine.step + 1 < Len(engine.steps)
         THEN [engine EXCEPT !.phase = "RUNNING_STEP", !.step = @ + 1]
       ELSE [engine EXCEPT
               !.phase = "DONE",
               !.events = Emit([type |-> "done", satisfied |-> engine.satisfied])]
  /\ UNCHANGED notEngineVars

\* after agent_complete: a dissatisfied critic or analyzer with the
\* iteration count below maxIterations starts the next iteration at the
\* re-entry point; otherwise the run advances to step i+1, or terminates
\* with done when the pipeline is exhausted
EngineAdvances ==
  /\ engine.phase = "COMPLETED"
  /\ engine' =
       IF /\ RoleAtStep \in VerdictRoles
          /\ ~engine.satisfied
          /\ engine.iteration < engine.maxIterations
         THEN [engine EXCEPT
                 !.phase = "RUNNING_STEP", !.iteration = @ + 1,
                 !.step = ReentryStep(engine.steps),
                 !.events = Emit([type |-> "iteration", iteration |-> engine.iteration + 1])]
       ELSE IF engine.step + 1 < Len(engine.steps)
         THEN [engine EXCEPT !.phase = "RUNNING_STEP", !.step = @ + 1]
       ELSE [engine EXCEPT
               !.phase = "DONE",
               !.events = Emit([type |-> "done", satisfied |-> engine.satisfied])]
  /\ UNCHANGED notEngineVars

\* a step of the run in progress
EngineStep ==
  \/ EngineInit
  \/ AgentStart
  \/ AgentChunk
  \/ AgentFails
  \/ \E verdict \in BOOLEAN : AgentCompletes(verdict)
  \/ EngineAdvances

\* ------------------------------------------------------------ ws.onmessage
\* a ws.onmessage whose catch block reports the frame as an error event
OnMessageReportsError(f) ==
  /\ OpenSocket
  /\ arriving # "none"
  /\ handled' = handled + 1
  /\ last' = Some(f)
  /\ IF f.parses /\ ~Throws(f.data)
       THEN /\ window' = WindowAfter(window, f.data, Len(chatHistory))
            /\ Store(handleEvent(Cur, f.data))
            /\ replay' = IF replay # None THEN Some(handleEvent(replay[1], f.data)) ELSE None
            /\ stale' =
                 IF arriving = "earlier"
                   THEN stale \cup Written(chatHistory, chatHistory')
                          \cup (IF <<agentStates, finalOutput, isProcessing>>
                                    # <<agentStates', finalOutput', isProcessing'>>
                                  THEN {NoId} ELSE {})
                   ELSE stale
       ELSE /\ Store(HandleError(Cur, [type |-> "error",
                                        content |-> <<"Failed to parse event">>]))
            /\ UNCHANGED histVars
  /\ UNCHANGED <<isConnected, activeSessionId, sockVars, netVars, editVars>>

\* ws.onmessage for a frame with text f (a frame arrives only on an OPEN
\* socket on which a query was sent): JSON.parse and handleEvent inside
\* try/catch
OnMessage(f) ==
  /\ OpenSocket
  /\ arriving # "none"
  /\ handled' = handled + 1
  /\ last' = Some(f)
  /\ IF f.parses /\ ~Throws(f.data)
       THEN /\ window' = WindowAfter(window, f.data, Len(chatHistory))
            /\ Store(handleEvent(Cur, f.data))
            /\ replay' = IF replay # None THEN Some(handleEvent(replay[1], f.data)) ELSE None
            /\ stale' =
                 IF arriving = "earlier"
                   THEN stale \cup Written(chatHistory, chatHistory')
                          \cup (IF <<agentStates, finalOutput, isProcessing>>
                                    # <<agentStates', finalOutput', isProcessing'>>
                                  THEN {NoId} ELSE {})
                   ELSE stale
       ELSE UNCHANGED <<aggVars, histVars>>
  /\ UNCHANGED <<isConnected, activeSessionId, sockVars, netVars, editVars>>

\* the step is the delivery of the event e
Delivers(e) == handled' = handled + 1 /\ last' = Some([parses |-> TRUE, data |-> e])

\* ---------------------------------------------------------- specifications
\* The aggregator: the store on its open connection (App connects on mount),
\* the user's queries and the events of their runs.
InitOpen ==
  /\ chatHistory = <<>>
  /\ agentStates = EmptyObj
  /\ finalOutput = None
  /\ isProcessing = FALSE
  /\ currentIteration = 0
  /\ currentStep = 0
  /\ isConnected = TRUE
  /\ activeSessionId = None
  /\ currentMessageIds = EmptyObj
  /\ ws = 1
  /\ sockets = <<[readyState |-> "OPEN", url |-> WsUrl("")]>>
  /\ arriving = "none"
  /\ activePipeline = <<>>
  /\ generated = 0
  /\ sessions = <<>>
  /\ posted = None
  /\ sent = None
  /\ engine = IdleEngine
  /\ handled = 0
  /\ last = None
  /\ replay = None
  /\ window = [k \in WindowKeys |-> ClosedWindow({})]
  /\ stale = {}

Next ==
  \/ \E q \in Queries : SendQuery(q)
  \/ CurrentRunArrives
  \/ handled < MaxEvents /\ \E f \in Frames : OnMessage(f)

Spec == InitOpen /\ [][Next]_vars

\* The whole store: from construction, with every socket callback and every
\* user action, and one frame of each kind.
ConnFrames ==
  {f \in Frames :
     \/ ~f.parses
     \/ /\ Has(f.data, "agent")
        /\ f.data.type \in {"status", "agent_start", "token"}
        /\ f.data.agent \in {"ORCHESTRATOR", "GEMINI"}
        /\ ContentOrEmpty(f.data) # <<>> \/ f.data.type # "token"
     \/ f.data.type \in {"done", "error"} /\ ContentOrEmpty(f.data) # <<>>}

\* the argument App and Sidebar call connect with: the active session, if any
ActiveSessionArg == IF activeSessionId = None THEN "" ELSE activeSessionId[1]

NextConn ==
  \/ Len(sockets) < MaxSockets /\ Connect(ActiveSessionArg)
  \/ \E i \in 1..Len(sockets) : OnOpen(i)
  \/ \E i \in 1..Len(sockets) : OnClose(i)
  \/ \E i \in 1..Len(sockets) : OnError(i)
  \/ Disconnect
  \/ \E q \in Queries : SendQuery(q)
  \/ CurrentRunArrives
  \/ handled < MaxConnEvents /\ \E f \in ConnFrames : OnMessage(f)
  \/ ClearMessages
  \/ \E s \in Sessions : SetActiveSession(s)
  \/ Reset
  \/ \E ids \in DiscoveredSets : FetchAgents(ids)

SpecConn == Init /\ [][NextConn]_vars

\* Reconnection: the store from construction on the default endpoint, with
\* connect() called again whenever the socket is not open, the socket
\* callbacks, the user's queries and the frames of a short run.
MaxReconnectSockets == 2

\* a token and a done frame
SessionFrames ==
  {f \in ConnFrames : f.parses /\ f.data.type \in {"token", "done"}}

NextReconnect ==
  \/ Len(sockets) < MaxReconnectSockets /\ Connect("")
  \/ \E i \in 1..Len(sockets) : OnOpen(i)
  \/ \E i \in 1..Len(sockets) : OnClose(i)
  \/ \E i \in 1..Len(sockets) : OnError(i)
  \/ \E q \in Queries : SendQuery(q)
  \/ CurrentRunArrives
  \/ handled < MaxConnEvents /\ \E f \in SessionFrames : OnMessage(f)

SpecReconnect == Init /\ [][NextReconnect]_vars

\* The sessions: the store from construction with the handlers of App and
\* Sidebar that connect (mount, select a session, create a session), the
\* socket callbacks, the user's queries and a few frames.
MaxSessionSockets == 2

NewSessionIds == SessionIds \ {sessions[i].id : i \in 1..Len(sessions)}

NextSession ==
  \/ Len(sockets) < MaxSessionSockets /\ Connect(ActiveSessionArg)
  \/ /\ OpenSocket \/ Len(sockets) < MaxSessionSockets
     /\ \E s \in SessionIds : HandleSelectSession(s)
  \/ posted = None /\ CreateSession
  \/ /\ OpenSocket \/ Len(sockets) < MaxSessionSockets
     /\ \E id \in NewSessionIds : HandleCreateSession(id)
  \/ \E i \in 1..Len(sockets) : OnOpen(i)
  \/ \E i \in 1..Len(sockets) : OnClose(i)
  \/ \E i \in 1..Len(sockets) : OnError(i)
  \/ \E q \in Queries : SendQuery(q)
  \/ CurrentRunArrives
  \/ handled < MaxConnEvents /\ \E f \in SessionFrames : OnMessage(f)

SpecSession == Init /\ [][NextSession]_vars

\* The pipeline builder: the user edits the pipeline on the open connection
\* and then sends the query.
\* ids generateId() makes for pipeline steps in one behaviour
MaxSteps == 3

\* the agents the sidebar adds, each with its first default role
PipelineAgents ==
  {[id |-> "gemini", role |-> "generator"], [id |-> "qwen", role |-> "critic"]}

\* the Partial<PipelineStep> objects updatePipelineStep is called with: one
\* that names a role and settings, and one that names the id of the first
\* step made
StepUpdates ==
  {[role |-> "refiner", settings |-> [temperature |-> 1]], [id |-> 1]}

StepIdsIn(p) == {p[i].id : i \in 1..Len(p)}

NextPipeline ==
  /\ sent = None
  /\ \/ generated < MaxSteps /\ \E a \in PipelineAgents : AddPipelineStep(a.id, a.role)
     \/ \E id \in StepIdsIn(activePipeline) : RemovePipelineStep(id)
     \/ \E id \in StepIdsIn(activePipeline), u \in StepUpdates : UpdatePipelineStep(id, u)
     \/ \E from, to \in 0..(Len(activePipeline) - 1) : ReorderPipeline(from, to)
     \/ ClearPipeline
     \/ \E q \in Queries : SendQuery(q)

SpecPipeline == InitOpen /\ [][NextPipeline]_vars

\* The session snapshot: the user edits the pipeline and creates sessions;
\* the response to a POST /session/new may arrive after further edits.
\* ids generateId() makes for pipeline steps in one behaviour
MaxSnapshotSteps == 2
\* sessions created in one behaviour
MaxSessions == 1

NextSnapshot ==
  \/ generated < MaxSnapshotSteps /\ AddPipelineStep("gemini", "generator")
  \/ \E id \in StepIdsIn(activePipeline) : RemovePipelineStep(id)
  \/ \E id \in StepIdsIn(activePipeline), u \in StepUpdates : UpdatePipelineStep(id, u)
  \/ \E from, to \in 0..(Len(activePipeline) - 1) : ReorderPipeline(from, to)
  \/ ClearPipeline
  \/ posted = None /\ Len(sessions) < MaxSessions /\ CreateSession
  \/ \E id \in NewSessionIds : HandleCreateSession(id)

SpecSnapshot == InitOpen /\ [][NextSnapshot]_vars

\* The engine: it runs the queries it receives from the clients of the
\* session, each cancelling the run in progress.
\* a step as a submit-query message carries it
WireStep(agentId, role) == [agentId |-> agentId, role |-> role, settings |-> EmptyObj]

\* the step lists of the clients' pipelines
WireSteps ==
  {<<>>,
   <<WireStep("gemini", "generator")>>,
   <<WireStep("gemini", "generator"), WireStep("qwen", "critic")>>,
   <<WireStep("gemini", "generator"), WireStep("qwen", "critic"),
     WireStep("gemini", "refiner")>>}

\* the submit-query messages of the clients
SubmitQueries ==
  LET Plain(n) == [query |-> "q", maxIterations |-> n, skipCritique |-> FALSE]
  IN {Plain(n) : n \in 1..MaxCap}
       \cup {[pipeline |->
                [steps |-> st, maxIterations |-> n,
                 contextWindow |-> defaultSettings.contextWindow]] @@ Plain(n) :
               n \in 1..MaxCap, st \in WireSteps}

NextEngine ==
  \/ \E msg \in SubmitQueries : EngineReceives(msg, FALSE)
  \/ EngineStep

SpecEngine == InitOpen /\ [][NextEngine]_vars

\* the engine goes on with a run in progress
SpecEngineFair == SpecEngine /\ WF_vars(EngineStep)

\* The submission: the user builds a pipeline and sends the query, which
\* the engine runs; another client of the session submits zero-step
\* pipelines.
\* ids generateId() makes for pipeline steps in one behaviour
MaxSubmitSteps == 2

NextSubmit ==
  \/ /\ sent = None
     /\ generated < MaxSubmitSteps
     /\ \E a \in PipelineAgents : AddPipelineStep(a.id, a.role)
  \/ sent = None /\ \E q \in Queries : SendQuery(q)
  \/ ReceiveSent
  \/ \E msg \in {m \in SubmitQueries : Has(m, "pipeline") /\ m.pipeline.steps = <<>>} :
       EngineReceives(msg, FALSE)
  \/ EngineStep

SpecSubmit == InitOpen /\ [][NextSubmit]_vars

\* The resubmission: the user adds steps to the pipeline and sends queries,
\* also in the middle of a run.
NextResend ==
  \/ generated < MaxSubmitSteps /\ \E a \in PipelineAgents : AddPipelineStep(a.id, a.role)
  \/ \E q \in Queries : SendQuery(q)
  \/ CurrentRunArrives
  \/ handled < MaxConnEvents /\ \E f \in SessionFrames : OnMessage(f)

SpecResend == InitOpen /\ [][NextResend]_vars

\* The reordering: the user adds steps and reorderPipeline is called with
\* any indices, those one below and one beyond the pipeline's included; the
\* pipeline is reordered while it has at most MaxSteps entries.
NextReorder ==
  \/ generated < MaxSteps /\ \E a \in PipelineAgents : AddPipelineStep(a.id, a.role)
  \/ /\ Len(activePipeline) <= MaxSteps
     /\ \E from, to \in (0 - 1)..Len(activePipeline) : ReorderPipeline(from, to)

SpecReorder == InitOpen /\ [][NextReorder]_vars

\* ------------------------------------------------------------------ claims
\* what a replay may not change: the messages without their generated ids,
\* agentStates and finalOutput
WithoutId(m) == [f \in DOMAIN m \ {"id"} |-> m[f]]
ReplayView(st) ==
  [chatHistory |-> [i \in 1..Len(st.chatHistory) |-> WithoutId(st.chatHistory[i])],
   agentStates |-> st.agentStates,
   finalOutput |-> st.finalOutput]

\* the indices above `from` of the messages of the pair k = <<agentId, type>>
MessagesOf(k, from) ==
  {i \in (from + 1)..Len(chatHistory) :
     /\ Has(chatHistory[i], "agentId")
     /\ chatHistory[i].agentId = k[1]
     /\ chatHistory[i].type = k[2]}

KeyOf(e) == <<EffectiveAgentId(e), e.type>>

\* the boundary b was handled after the last event of the pair k, in the
\* current run, and no event of k since
ClosedBy(k, b) ==
  /\ ~window[k].open
  /\ b \in window[k].closers
  /\ window[k].closers \cap {"sendQuery", "cleared"} = {}

\* this step appends one message for e, holding e's content alone
StartsNewMessage(e) ==
  /\ Len(chatHistory') = Len(chatHistory) + 1
  /\ SubSeq(chatHistory', 1, Len(chatHistory)) = chatHistory
  /\ chatHistory'[Len(chatHistory')].agentId = EffectiveAgentId(e)
  /\ chatHistory'[Len(chatHistory')].type = e.type
  /\ chatHistory'[Len(chatHistory')].content = ContentOrEmpty(e)

\* C1 (replay determinism): the store state reached by the events of the
\* current run equals, up to message ids, the state a fresh store reaches on
\* the same events: same messages in the same order, same agentStates, same
\* finalOutput.
C1_ReplayDeterminism ==
  replay # None => ReplayView(Cur) = ReplayView(replay[1])

\* C2 (accumulation): the events of one (agentId, type) pair since the last
\* boundary event have produced exactly one message, whose content is the
\* concatenation of their contents in arrival order.
C2_Accumulation ==
  \A k \in WindowKeys :
    window[k].open =>
      /\ Cardinality(MessagesOf(k, window[k].since)) = 1
      /\ \A i \in MessagesOf(k, window[k].since) : chatHistory[i].content = window[k].text

\* C3 (iteration boundary): a token event for an agent whose previous token
\* was followed by an iteration event starts a new message.
C3_IterationBoundary ==
  [][\A e \in Events :
       (e.type = "token" /\ ClosedBy(KeyOf(e), "iteration") /\ Delivers(e))
         => StartsNewMessage(e)]_vars

\* C4 (agent_complete closes the window): a token, critique or refinement
\* event for an agent whose agent_complete was handled since the pair's last
\* event starts a new message.
C4_AgentCompleteCloses ==
  [][\A e \in Events :
       (e.type \in StreamTypes /\ ClosedBy(KeyOf(e), "agent_complete") /\ Delivers(e))
         => StartsNewMessage(e)]_vars

\* C5 (isStreaming): the message of an open window has isStreaming = TRUE,
\* and once the agent's agent_complete is handled the messages of the
\* agent's pairs have isStreaming = FALSE.
C5_StreamingFlag ==
  \A k \in WindowKeys :
    /\ window[k].open =>
         \A i \in MessagesOf(k, window[k].since) : chatHistory[i].isStreaming
    /\ ClosedBy(k, "agent_complete") =>
         \A i \in MessagesOf(k, 0) : ~chatHistory[i].isStreaming

\* C6 (cancellation): no message written by an event of an earlier run, and
\* no other change such an event made, is in the store during the current
\* run.
C6_Cancellation ==
  /\ NoId \notin stale
  /\ \A i \in 1..Len(chatHistory) : chatHistory[i].id \notin stale

\* this step appends exactly one message, of type t from SYSTEM
AppendsSystemMessage(t) ==
  /\ Len(chatHistory') = Len(chatHistory) + 1
  /\ SubSeq(chatHistory', 1, Len(chatHistory)) = chatHistory
  /\ chatHistory'[Len(chatHistory')].type = t
  /\ chatHistory'[Len(chatHistory')].agent = "SYSTEM"

\* what a done event leaves, with `out` as finalOutput
DoneLeaves(out) ==
  /\ currentMessageIds' = EmptyObj
  /\ DOMAIN agentStates' = DOMAIN agentStates
  /\ \A a \in DOMAIN agentStates' :
       ~agentStates'[a].isActive /\ ~agentStates'[a].isThinking
  /\ finalOutput' = out
  /\ isProcessing' = FALSE
  /\ AppendsSystemMessage("done")

\* a streaming event handled after a done event, with no event of its pair
\* in between, starts a new message
StreamAfterDone ==
  \A e \in Events :
    (e.type \in StreamTypes /\ ~window[KeyOf(e)].open /\ "done" \in window[KeyOf(e)].closers
       /\ Delivers(e))
      => StartsNewMessage(e)

\* C7 as stated: on done all accumulation keys are closed, every agent is
\* inactive and not thinking, finalOutput is the event's payload,
\* isProcessing is false and one done message from SYSTEM is appended.
C7_DoneStated ==
  [][/\ \A e \in Events :
          (e.type = "done" /\ Delivers(e))
            => DoneLeaves(IF Has(e, "payload") THEN Some(e.payload) ELSE None)
     /\ StreamAfterDone]_vars

\* C7 as amended: the same, with finalOutput the event's payload when that
\* is a non-empty string and null when it is absent or empty.
C7_Done ==
  [][/\ \A e \in Events :
          (e.type = "done" /\ Delivers(e))
            => DoneLeaves(IF Has(e, "payload") /\ e.payload # <<>>
                            THEN Some(e.payload) ELSE None)
     /\ StreamAfterDone]_vars

\* a done event with a payload was handled after an agent's output, and a
\* streaming event after it started a message of its own
C7_Witness ==
  /\ Len(chatHistory) = 3
  /\ chatHistory[1].type = "token"
  /\ chatHistory[2].type = "done"
  /\ chatHistory[3].type = "token"
  /\ finalOutput = Some(<<"out">>)
  /\ "gemini" \in DOMAIN agentStates

\* C8 (error): an error event sets isProcessing to false and appends one
\* SYSTEM message whose content starts with "Error: "; the messages before
\* it, finalOutput and agentStates are as they were.
C8_Error ==
  [][\A e \in Events :
       (e.type = "error" /\ Delivers(e))
         => /\ isProcessing' = FALSE
            /\ AppendsSystemMessage("error")
            /\ Head(chatHistory'[Len(chatHistory')].content) = "Error: "
            /\ finalOutput' = finalOutput
            /\ agentStates' = agentStates]_vars

\* an error was handled after partial output and a final output
C8_Witness ==
  /\ Len(chatHistory) = 3
  /\ chatHistory[1].type \in StreamTypes
  /\ chatHistory[3].type = "error"
  /\ chatHistory[3].content = <<"Error: ", "boom">>
  /\ finalOutput # None
  /\ agentStates # EmptyObj
  /\ ~isProcessing

\* a message without its content
WithoutContent(m) == [f \in DOMAIN m \ {"content"} |-> m[f]]

\* every message is still there, at its place, with its content extended at
\* the end if changed at all
Grows ==
  \/ chatHistory' = chatHistory
  \/ /\ Len(chatHistory') >= Len(chatHistory)
     /\ \A i \in 1..Len(chatHistory) :
          \/ chatHistory'[i] = chatHistory[i]
          \/ /\ WithoutContent(chatHistory'[i]) = WithoutContent(chatHistory[i])
             /\ IsPrefix(chatHistory[i].content, chatHistory'[i].content)

\* the step is one of the user actions that empty the transcript
UserEmpties ==
  \/ \E q \in Queries : SendQuery(q)
  \/ ClearMessages
  \/ \E s \in Sessions : SetActiveSession(s)
  \/ Reset

\* C9 (no loss of delivered transcript): every step of the store (a handled
\* event of any type, a dropped frame, onopen, onerror, onclose, connect,
\* disconnect, fetchAgents) leaves each message of chatHistory in place with
\* its old content a prefix of the new; only sendQuery, clearMessages,
\* setActiveSession and reset remove messages.
C9_NoLoss == [][Grows \/ UserEmpties]_vars

\* a message that grew by a second event is still in the transcript after
\* the socket closed
C9_Witness ==
  /\ Len(chatHistory) = 1
  /\ chatHistory[1].content = <<"a", "a">>
  /\ sockets[1].readyState = "CLOSED"
  /\ ~isConnected

\* the lower-case id the spec gives an agent label
LowerCaseId(agent) ==
  CASE agent = "GEMINI" -> "gemini"
    [] agent = "QWEN" -> "qwen"

\* what C10 says of a step that handles e, when e is attributed to id: the
\* step writes the agentStates entry of id and the accumulation key of id,
\* and the same event carrying agentId = id would have left the same store
AttributedTo(e, id) ==
  /\ id \in DOMAIN agentStates'
  /\ e.type \in StreamTypes =>
       /\ (id \o "_" \o e.type) \in DOMAIN currentMessageIds'
       /\ currentMessageIds'[id \o "_" \o e.type] # NoId
  /\ e.type = "agent_complete" =>
       /\ id \in DOMAIN currentMessageIds'
       /\ currentMessageIds'[id] = NoId
  /\ Store(handleEvent(Cur, [agentId |-> id] @@ e))

OthersUnchanged(a) ==
  /\ DOMAIN agentStates' \ {a} = DOMAIN agentStates \ {a}
  /\ \A b \in DOMAIN agentStates \ {a} : agentStates'[b] = agentStates[b]

\* C11 (agent_start): handling agent_start for agent A makes agentStates[A]
\* exactly {isActive: true, isThinking: true, tokenCount: 0}, whatever it was
\* before (also when A had no entry), and leaves chatHistory, finalOutput and
\* every other agent's state unchanged.
C11_AgentStart ==
  [][\A e \in Events :
       (e.type = "agent_start" /\ Delivers(e))
         => /\ EffectiveAgentId(e) \in DOMAIN agentStates'
            /\ agentStates'[EffectiveAgentId(e)]
                 = [isActive |-> TRUE, isThinking |-> TRUE, tokenCount |-> 0]
            /\ OthersUnchanged(EffectiveAgentId(e))
            /\ chatHistory' = chatHistory
            /\ finalOutput' = finalOutput]_vars

\* agent_start for gemini was handled after gemini had streamed a message
\* (tokenCount 1) and while qwen had a state of its own
C11_Witness ==
  /\ last = Some([parses |-> TRUE, data |-> [type |-> "agent_start"] @@ EvG])
  /\ Len(chatHistory) = 2
  /\ chatHistory[1].agentId = "gemini"
  /\ DOMAIN agentStates = {"gemini", "qwen"}
  /\ agentStates["gemini"].tokenCount = 0
  /\ agentStates["qwen"].tokenCount = 1

\* C12 (agent_complete): handling agent_complete for agent A leaves
\* agentStates[A] with isActive = false, isThinking = false and a tokenCount
\* that is a number, the one A had before the event (0 when A had no entry);
\* the other agents' states and chatHistory are unchanged.
C12_AgentComplete ==
  [][\A e \in Events :
       (e.type = "agent_complete" /\ Delivers(e))
         => /\ EffectiveAgentId(e) \in DOMAIN agentStates'
            /\ ~agentStates'[EffectiveAgentId(e)].isActive
            /\ ~agentStates'[EffectiveAgentId(e)].isThinking
            /\ Has(agentStates'[EffectiveAgentId(e)], "tokenCount")
            /\ agentStates'[EffectiveAgentId(e)].tokenCount
                 = TokenCountOf(Cur, EffectiveAgentId(e))
            /\ OthersUnchanged(EffectiveAgentId(e))
            /\ chatHistory' = chatHistory]_vars

\* the agent ids the events address
AgentIds == {"gemini", "qwen"}

\* the step handles a token, critique or refinement event attributed to a
StreamsTo(a) ==
  \E e \in Events : e.type \in StreamTypes /\ EffectiveAgentId(e) = a /\ Delivers(e)

\* the step handles an agent_start event for a
Starts(a) ==
  \E e \in Events : e.type = "agent_start" /\ EffectiveAgentId(e) = a /\ Delivers(e)

\* C13 (tokenCount counts events): agentStates[A].tokenCount is the number of
\* token/critique/refinement events attributed to A handled since the last
\* agent_start for A, or since A's entry was created.  As a property of
\* steps: an entry always has a tokenCount; agent_start for A makes it 0, a
\* created entry starts at 0, each streaming event for A raises it by exactly
\* one (whatever the content) and sets isActive = true, isThinking = false,
\* and no other step changes it.
C13_TokenCount ==
  [][\A a \in AgentIds :
       a \in DOMAIN agentStates' =>
         /\ Has(agentStates'[a], "tokenCount")
         /\ agentStates'[a].tokenCount =
              IF Starts(a) THEN 0
              ELSE IF StreamsTo(a) THEN TokenCountOf(Cur, a) + 1
              ELSE TokenCountOf(Cur, a)
         /\ StreamsTo(a) => agentStates'[a].isActive /\ ~agentStates'[a].isThinking]_vars

\* the step is the close event of a socket
ClosesSocket ==
  /\ Len(sockets') = Len(sockets)
  /\ \E i \in 1..Len(sockets) :
       sockets[i].readyState # "CLOSED" /\ sockets'[i].readyState = "CLOSED"

\* C14 (transport close): after ws.onclose isConnected and isProcessing are
\* false; and while the socket is not OPEN no step transmits anything or
\* starts a run (a sendQuery issued then returns without effect): nothing
\* is passed to ws.send, isProcessing does not become true and the
\* transcript, final output and accumulation keys are not reset by a query.
C14_TransportClose ==
  [][/\ ClosesSocket => ~isConnected' /\ ~isProcessing'
     /\ ~OpenSocket =>
          /\ sent' = sent
          /\ isProcessing' => isProcessing
          /\ arriving' \in {arriving, "none"}
          /\ replay' \in {replay, None}]_vars

\* the socket closed in the middle of a run: a query was sent, a token
\* streamed, no done or error arrived, and the store is disconnected and
\* idle
C14_Witness ==
  /\ Len(sockets) = 1
  /\ sockets[1].readyState = "CLOSED"
  /\ sent # None
  /\ Len(chatHistory) = 1
  /\ chatHistory[1].type = "token"
  /\ ~isConnected
  /\ ~isProcessing

\* the current socket is open, was created by connect() after an earlier
\* connection, and one of the earlier connections has closed
Reconnected ==
  /\ OpenSocket
  /\ \E i \in 1..(ws - 1) : sockets[i].readyState = "CLOSED"

\* nothing was sent on the current socket
NothingSentYet == sent = None \/ sent[1].socket # ws

\* C15 as stated (reconnect gives a fresh view): once the connection has closed and
\* connect() has established a new one, and until a query is sent on it, the
\* transcript is empty: chatHistory is empty, no accumulation key is open,
\* finalOutput is null.
C15_FreshView ==
  (Reconnected /\ NothingSentYet) =>
    /\ chatHistory = <<>>
    /\ \A key \in DOMAIN currentMessageIds : currentMessageIds[key] = NoId
    /\ finalOutput = None

\* C15 as amended (reconnect replays nothing): onclose, onerror, connect()
\* and onopen leave chatHistory, the accumulation keys and finalOutput as
\* they were, so after a reconnection the client keeps showing the
\* transcript it had; and no frame is delivered on a connection on which no
\* query was sent, so no event missed during the disconnection is replayed.
C15_ReconnectReplaysNothing ==
  [][/\ sockets' # sockets => UNCHANGED <<chatHistory, currentMessageIds, finalOutput>>
     /\ handled' # handled => ~NothingSentYet]_vars

\* the connection closed in the middle of a run and a new one is open: the
\* streamed message is still shown
C15_Witness ==
  /\ Reconnected
  /\ NothingSentYet
  /\ Len(chatHistory) = 1
  /\ chatHistory[1].content = <<"a", "a">>
  /\ isConnected

\* the sockets that are open
OpenSockets == {i \in 1..Len(sockets) : sockets[i].readyState = "OPEN"}

\* C20 (one connection per session): once the user has selected or created
\* session S, no socket other than the current one is open, the current
\* socket, when open, is the one of URL /ws/chat/S (so that a query, which
\* sendQuery passes to the current open socket, goes to S's connection).
C20_OneConnectionPerSession ==
  activeSessionId # None =>
    /\ OpenSockets \subseteq {ws}
    /\ OpenSocket => sockets[ws].url = WsUrl(activeSessionId[1])

\* C16 (malformed frame): a frame that is not JSON, or whose object makes
\* handleEvent throw, is dropped: chatHistory, agentStates, finalOutput,
\* isProcessing, isConnected and the accumulation keys are what they were,
\* the socket is still the current one and OPEN, and the run's frames keep
\* arriving on it, so that the next event is handled as it would have been.
C16_MalformedDropped ==
  [][\A f \in Malformed :
       (handled' = handled + 1 /\ last' = Some(f))
         => /\ UNCHANGED <<chatHistory, agentStates, finalOutput, isProcessing,
                           isConnected, currentMessageIds, currentIteration,
                           currentStep>>
            /\ UNCHANGED <<sockets, ws, arriving>>
            /\ OpenSocket']_vars

\* a malformed frame was dropped in the middle of a run: the streamed
\* message, the agent's state and the run are as they were
C16_Witness ==
  /\ last # None
  /\ last[1] \in Malformed
  /\ handled = 3
  /\ Len(chatHistory) = 1
  /\ chatHistory[1].content = <<"a", "a">>
  /\ TokenCountOf(Cur, "gemini") = 2
  /\ isProcessing
  /\ OpenSocket

\* p without its element at the 0-based index i
WithoutIndex(p, i) == SubSeq(p, 1, i) \o SubSeq(p, i + 2, Len(p))

\* the steps of the pipeline in the last message passed to ws.send
SentSteps == sent[1].data.pipeline.steps

\* C17 (reorder integrity): reorderPipeline(from, to) with from and to in
\* 0..n-1 gives a pipeline of the same length whose step at index to is the
\* step that was at index from, and whose other steps are the other steps of
\* before, unchanged and in the order they had; the sendQuery that follows
\* sends the steps of the pipeline in the order it has then.
C17_ReorderIntegrity ==
  [][/\ \A from, to \in 0..(Len(activePipeline) - 1) :
          ReorderPipeline(from, to)
            => /\ Len(activePipeline') = Len(activePipeline)
               /\ activePipeline'[to + 1] = activePipeline[from + 1]
               /\ WithoutIndex(activePipeline', to) = WithoutIndex(activePipeline, from)
     /\ (sent' # sent /\ Len(activePipeline) > 0)
          => /\ Has(sent'[1].data, "pipeline")
             /\ sent'[1].data.pipeline.steps =
                  [i \in 1..Len(activePipeline) |->
                     [agentId |-> activePipeline[i].agentId,
                      role |-> activePipeline[i].role,
                      settings |-> activePipeline[i].settings]]]_vars

\* the third of three steps was moved to the front (reorderPipeline(2, 0))
\* and the query was sent: the steps went out third, first, second
C17_Witness ==
  /\ sent # None
  /\ Len(activePipeline) = 3
  /\ [i \in 1..3 |-> activePipeline[i].id] = <<3, 1, 2>>
  /\ [i \in 1..3 |-> SentSteps[i].role] = <<"refiner", "generator", "critic">>
  /\ SentSteps[1].settings = [temperature |-> 1]

\* C18 (pipeline identity): no two steps of activePipeline have the same id.
C18_PipelineIdsUnique ==
  \A i, j \in 1..Len(activePipeline) :
    i # j => activePipeline[i].id # activePipeline[j].id

\* C19 (session snapshot): createSession posts a copy of activePipeline as
\* it is when it runs; the Session that is added to sessions has the posted
\* pipeline, whatever the builder holds by then, and the entries sessions had
\* stay as they were; a step that changes activePipeline changes no entry of
\* sessions and not the copy that is posted.
C19_SnapshotIndependence ==
  [][/\ (posted' # posted /\ posted' # None)
          => posted'[1].pipeline =
               [i \in 1..Len(activePipeline) |->
                  [agentId |-> activePipeline[i].agentId,
                   role |-> activePipeline[i].role,
                   settings |-> activePipeline[i].settings]]
     /\ sessions' # sessions
          => /\ posted # None
             /\ Len(sessions') = Len(sessions) + 1
             /\ sessions'[1].pipeline = posted[1].pipeline
             /\ SubSeq(sessions', 2, Len(sessions')) = sessions
     /\ activePipeline' # activePipeline
          => sessions' = sessions /\ posted' = posted]_vars

\* a session was created from a pipeline of two steps, and the builder was
\* then cleared: the session still has the two steps
C19_Witness ==
  /\ Len(sessions) = 1
  /\ Len(sessions[1].pipeline) = 2
  /\ sessions[1].pipeline[1].role = "refiner"
  /\ activePipeline = <<>>
  /\ generated = 2

\* the types of the events the current run has emitted
EmittedTypes == {engine.events[i].type : i \in 1..Len(engine.events)}

\* the current run is the run of the query the store sent while its
\* pipeline builder was empty
EmptyBuilderRun ==
  /\ engine.fromStore
  /\ Len(activePipeline) = 0
  /\ engine.phase # "INIT"

\* C21 as stated: a run against a zero-step pipeline emits an error at once
\* and no agent_start, and the run of a query the store sent with an empty
\* activePipeline is such a run.
C21_EmptyPipeline ==
  /\ (Len(engine.steps) = 0 /\ engine.phase \notin {"IDLE", "INIT"})
       => engine.phase = "ERROR" /\ engine.events = <<[type |-> "error"]>>
  /\ EmptyBuilderRun
       => "agent_start" \notin EmittedTypes /\ engine.events[1].type = "error"

\* C21 (empty pipeline): a run against a zero-step pipeline emits an error
\* at once and no agent_start; the store never submits one: a query sent
\* while activePipeline is empty carries no `pipeline` and its run is a run
\* of the default generator/critic pipeline, and a query sent with steps
\* runs those steps.
C21_EmptyPipelineAtEngine ==
  /\ (Len(engine.steps) = 0 /\ engine.phase \notin {"IDLE", "INIT"})
       => engine.phase = "ERROR" /\ engine.events = <<[type |-> "error"]>>
  /\ EmptyBuilderRun
       => /\ engine.steps = <<"generator", "critic">>
          /\ engine.events[1].type = "status"
  /\ engine.fromStore /\ Len(activePipeline) > 0
       => engine.steps = [i \in 1..Len(activePipeline) |-> activePipeline[i].role]

\* the query of the empty builder ran the default pipeline to its end
C21_Witness ==
  /\ EmptyBuilderRun
  /\ engine.phase = "DONE"
  /\ Cardinality({i \in 1..Len(engine.events) : engine.events[i].type = "agent_start"}) = 2

\* the stream of the current run has at most one terminal event, as its
\* last event, and has it when the run is in its terminal state: done in
\* DONE, error in ERROR
OneTerminalLast ==
  LET ev == engine.events
  IN /\ Terminals(ev) <= 1
     /\ Terminals(ev) = 1 => ev[Len(ev)].type \in {"done", "error"} /\ ~EngineRunning
     /\ engine.phase = "DONE" => Terminals(ev) = 1 /\ ev[Len(ev)].type = "done"
     /\ engine.phase = "ERROR" => Terminals(ev) = 1 /\ ev[Len(ev)].type = "error"

CriticNeverSatisfied ==
  /\ \E i \in 1..Len(engine.steps) : engine.steps[i] = "critic"
  /\ ~engine.signalled

\* the invocations of a critic in the current run
CriticStarts ==
  Cardinality({i \in 1..Len(engine.events) :
                 /\ engine.events[i].type = "agent_start"
                 /\ engine.steps[engine.events[i].step + 1] = "critic"})

\* the iteration events of the current run
IterationEvents ==
  Cardinality({i \in 1..Len(engine.events) : engine.events[i].type = "iteration"})

\* C23 (cap enforcement): a run never goes beyond iteration maxIterations;
\* when no critic of its pipeline ever signals satisfaction, the run that
\* comes to its end has performed exactly maxIterations iterations (the
\* critic was invoked that many times) and ends with done, satisfied = false.
C23_CapEnforcement ==
  /\ engine.phase # "IDLE" =>
       /\ engine.iteration <= engine.maxIterations
       /\ IterationEvents < engine.maxIterations
       /\ CriticStarts <= engine.maxIterations
  /\ (CriticNeverSatisfied /\ engine.phase = "DONE") =>
       /\ engine.iteration = engine.maxIterations
       /\ IterationEvents = engine.maxIterations - 1
       /\ CriticStarts = engine.maxIterations
       /\ engine.events[Len(engine.events)] = [type |-> "done", satisfied |-> FALSE]

\* a run with maxIterations = MaxCap whose critic was never satisfied has
\* ended
C23_Witness ==
  /\ CriticNeverSatisfied
  /\ engine.phase = "DONE"
  /\ engine.maxIterations = MaxCap
  /\ CriticStarts = MaxCap
  /\ Len(engine.steps) = 3

\* C24 (status, iteration, pipeline_step): the event appends exactly one
\* Message, of the event's type and with the event's content (the empty
\* string when it has none), to the end of chatHistory, whose other Messages
\* stay; currentIteration becomes the event's iteration when it carries one,
\* currentStep its step when it carries one, and they are unchanged
\* otherwise; agentStates, finalOutput and isProcessing are unchanged.
C24_StatusEvents ==
  [][\A e \in Events :
       (e.type \in {"status", "iteration", "pipeline_step"} /\ Delivers(e))
         => /\ Len(chatHistory') = Len(chatHistory) + 1
            /\ SubSeq(chatHistory', 1, Len(chatHistory)) = chatHistory
            /\ chatHistory'[Len(chatHistory')].type = e.type
            /\ chatHistory'[Len(chatHistory')].content
                 = (IF "content" \in DOMAIN e THEN e.content ELSE <<>>)
            /\ currentIteration'
                 = (IF "iteration" \in DOMAIN e THEN e.iteration ELSE currentIteration)
            /\ currentStep' = (IF "step" \in DOMAIN e THEN e.step ELSE currentStep)
            /\ UNCHANGED <<agentStates, finalOutput, isProcessing>>]_vars

\* a status event (no iteration, no step) was handled after an iteration
\* event and a pipeline_step event had set the counters
C24_Witness ==
  /\ last # None
  /\ last[1].parses
  /\ last[1].data.type = "status"
  /\ Len(chatHistory) = 3
  /\ chatHistory[3].type = "status"
  /\ chatHistory[1].type = "iteration"
  /\ chatHistory[1].content = <<>>
  /\ currentIteration = 1
  /\ currentStep = 1

\* C25 (connection flag): isConnected is true exactly when the store's
\* current socket is OPEN, and no callback of a socket that is not the
\* current one turns isConnected or isProcessing false while the current
\* socket is OPEN.
C25_FlagConsistency ==
  /\ [](isConnected <=> OpenSocket)
  /\ [][(OpenSocket /\ OpenSocket' /\ ws' = ws)
          => /\ isConnected => isConnected'
             /\ (isProcessing /\ sent' = sent /\ handled' = handled) => isProcessing']_vars

\* the sequence s ends with the sequence c
EndsWith(s, c) == Len(c) <= Len(s) /\ SubSeq(s, Len(s) - Len(c) + 1, Len(s)) = c

\* C26 (no streamed content dropped): every accumulation key refers to a
\* Message of chatHistory, and after a token, critique or refinement event
\* with content c is handled, chatHistory has a Message of the event's agent
\* and type whose content ends with c.
C26_NoContentDropped ==
  /\ [](\A k \in DOMAIN currentMessageIds :
          currentMessageIds[k] # NoId
            => \E i \in 1..Len(chatHistory) : chatHistory[i].id = currentMessageIds[k])
  /\ [][\A e \in Events :
          (e.type \in StreamTypes /\ Delivers(e))
            => \E i \in 1..Len(chatHistory') :
                 /\ {"agentId", "type", "content"} \subseteq DOMAIN chatHistory'[i]
                 /\ chatHistory'[i].agentId = EffectiveAgentId(e)
                 /\ chatHistory'[i].type = e.type
                 /\ EndsWith(chatHistory'[i].content, ContentOrEmpty(e))]_vars

\* the index in chatHistory of the open Message of the key of e, 0 when
\* there is none
OpenIndex(e) ==
  LET at == {i \in 1..Len(chatHistory) :
               /\ MessageKey(e) \in DOMAIN currentMessageIds
               /\ chatHistory[i].id = currentMessageIds[MessageKey(e)]}
  IN IF at = {} THEN 0 ELSE CHOOSE i \in at : \A j \in at : i <= j

\* C27 (keyed, position-stable accumulation): a token, critique or
\* refinement event changes one Message, which is of the event's agent and
\* type: the open Message of the key (agentId, type) at the index it has,
\* wherever that is in chatHistory, by appending the content, or else a new
\* Message at the end; every other Message keeps its content and position.
C27_KeyedAccumulation ==
  [][\A e \in Events :
       (e.type \in StreamTypes /\ Delivers(e))
         => LET idx == IF OpenIndex(e) # 0 THEN OpenIndex(e) ELSE Len(chatHistory) + 1
            IN /\ Len(chatHistory') = (IF OpenIndex(e) # 0 THEN Len(chatHistory)
                                                         ELSE Len(chatHistory) + 1)
               /\ \A i \in 1..Len(chatHistory) : i # idx => chatHistory'[i] = chatHistory[i]
               /\ {"agentId", "type", "content"} \subseteq DOMAIN chatHistory'[idx]
               /\ chatHistory'[idx].agentId = EffectiveAgentId(e)
               /\ chatHistory'[idx].type = e.type
               /\ OpenIndex(e) # 0 =>
                    /\ {"agentId", "type", "content"} \subseteq DOMAIN chatHistory[idx]
                    /\ chatHistory[idx].agentId = EffectiveAgentId(e)
                    /\ chatHistory[idx].type = e.type
                    /\ chatHistory'[idx].content
                         = chatHistory[idx].content \o ContentOrEmpty(e)
                    /\ chatHistory'[idx].id = chatHistory[idx].id
               /\ OpenIndex(e) = 0 => chatHistory'[idx].content = ContentOrEmpty(e)]_vars

\* gemini's token Message, open at index 1, received a second token after
\* another Message had been appended behind it
C27_Witness ==
  /\ last = Some([parses |-> TRUE, data |-> [type |-> "token", content |-> <<"a">>] @@ EvG])
  /\ Len(chatHistory) = 2
  /\ chatHistory[1].type = "token"
  /\ chatHistory[1].content = <<"a", "a">>
  /\ chatHistory[2].type \in {"status", "critique"}

\* no agent is shown active or thinking and no accumulation key is open
\* (in the primed state)
QuiescentAfter ==
  /\ ~isProcessing'
  /\ \A a \in DOMAIN agentStates' :
       ~agentStates'[a].isActive /\ ~agentStates'[a].isThinking
  /\ \A k \in DOMAIN currentMessageIds' : currentMessageIds'[k] = NoId

\* C28 (quiescence): when a terminal event, done or error, has been
\* handled, isProcessing is false, no entry of agentStates has isActive or
\* isThinking true and no accumulation key is open.
C28_Quiescence ==
  [][\A e \in Events :
       (e.type \in {"done", "error"} /\ Delivers(e)) => QuiescentAfter]_vars

\* C29 (sendQuery): on an OPEN socket sendQuery empties chatHistory, sets
\* finalOutput null, isProcessing true and the counters 0, clears the
\* accumulation keys, and passes one object to send on the current socket:
\* query, maxIterations and skipCritique, and a pipeline exactly when
\* activePipeline has steps: those steps in order (agentId, role, settings)
\* with maxIterations and contextWindow of the settings; agentStates and
\* activePipeline are unchanged.
C29_SendQuery ==
  [][\A q \in Queries :
       SendQuery(q)
         => /\ chatHistory' = <<>>
            /\ finalOutput' = None
            /\ isProcessing'
            /\ currentIteration' = 0
            /\ currentStep' = 0
            /\ currentMessageIds' = EmptyObj
            /\ UNCHANGED <<agentStates, activePipeline>>
            /\ sent' # None
            /\ sent'[1].socket = ws
            /\ LET data == sent'[1].data
               IN /\ data.query = q
                  /\ data.maxIterations = defaultSettings.maxIterations
                  /\ data.skipCritique = defaultSettings.skipCritique
                  /\ ("pipeline" \in DOMAIN data) <=> (Len(activePipeline) > 0)
                  /\ DOMAIN data \subseteq {"query", "maxIterations", "skipCritique", "pipeline"}
                  /\ Len(activePipeline) > 0 =>
                       /\ data.pipeline.steps =
                            [i \in 1..Len(activePipeline) |->
                               [agentId |-> activePipeline[i].agentId,
                                role |-> activePipeline[i].role,
                                settings |-> activePipeline[i].settings]]
                       /\ data.pipeline.maxIterations = defaultSettings.maxIterations
                       /\ data.pipeline.contextWindow = defaultSettings.contextWindow]_vars

\* a query was sent with a pipeline of two steps in the middle of a run
\* that had been started without a pipeline and had streamed a Message
C29_Witness ==
  /\ sent # None
  /\ "pipeline" \in DOMAIN sent[1].data
  /\ Len(sent[1].data.pipeline.steps) = 2
  /\ chatHistory = <<>>
  /\ currentMessageIds = EmptyObj
  /\ isProcessing
  /\ handled > 0
  /\ "gemini" \in DOMAIN agentStates
  /\ arriving = "earlier"

\* the number of entries of p that are x
CountIn(p, x) == Cardinality({i \in 1..Len(p) : p[i] = x})

\* C30 (reorderPipeline is total): for any two indices, in 0..n-1 or not
\* and for the empty pipeline too, the resulting activePipeline has the
\* steps it had: the same length, each step as often as before, and no
\* undefined entry.
C30_ReorderTotal ==
  [][\A from, to \in (0 - 1)..Len(activePipeline) :
       ReorderPipeline(from, to)
         => /\ Len(activePipeline') = Len(activePipeline)
            /\ \A i \in 1..Len(activePipeline') :
                 /\ activePipeline'[i] # undefined
                 /\ CountIn(activePipeline', activePipeline'[i])
                      = CountIn(activePipeline, activePipeline'[i])]_vars
====
